---- MODULE Spec2Model ----
(***************************************************************************)
(* Mirror simulation (src/src/physics.ts, src/src/App.tsx).                *)
(*                                                                         *)
(* The program computes with TypeScript `number`, i.e. IEEE-754 binary64.  *)
(* The model keeps that arithmetic: a number is a record                   *)
(*     [k |-> kind, s |-> sign bit, m |-> magnitude, e |-> exponent]       *)
(* of value (-1)^s * m * 2^e, where m is an odd natural number held as a   *)
(* little-endian sequence of 15-bit limbs (53 bits exceed TLC's 32-bit     *)
(* integers).  Every operation rounds to nearest, ties to even, to 53      *)
(* significant bits, as the hardware does.                                 *)
(***************************************************************************)
EXTENDS Integers, Sequences, FiniteSets

\* ------------------------------------------------------------------------
\* Natural numbers of arbitrary size: little-endian limbs, no high zero limb.
\* ------------------------------------------------------------------------

Max(x, y) == IF x >= y THEN x ELSE y

Min(x, y) == IF x <= y THEN x ELSE y

LimbBits == 15

Base == 2 ^ LimbBits

Tl(a) == IF a = <<>> THEN <<>> ELSE Tail(a)

Hd(a) == IF a = <<>> THEN 0 ELSE Head(a)

RECURSIVE BNorm(_)
BNorm(a) ==
  IF a = <<>> THEN <<>>
  ELSE IF a[Len(a)] = 0 THEN BNorm(SubSeq(a, 1, Len(a) - 1))
  ELSE a

RECURSIVE BFromNat(_)
BFromNat(n) == IF n = 0 THEN <<>> ELSE <<n % Base>> \o BFromNat(n \div Base)

RECURSIVE BAddC(_, _, _)
BAddC(a, b, c) ==
  IF a = <<>> /\ b = <<>>
  THEN (IF c = 0 THEN <<>> ELSE <<c>>)
  ELSE LET x == Hd(a) + Hd(b) + c
       IN  <<x % Base>> \o BAddC(Tl(a), Tl(b), x \div Base)

BAdd(a, b) == BAddC(a, b, 0)

\* a - b - c for a >= b + c
RECURSIVE BSubC(_, _, _)
BSubC(a, b, c) ==
  IF a = <<>> THEN <<>>
  ELSE LET x == Hd(a) - Hd(b) - c
       IN  IF x < 0
           THEN <<x + Base>> \o BSubC(Tl(a), Tl(b), 1)
           ELSE <<x>> \o BSubC(Tl(a), Tl(b), 0)

BSub(a, b) == BNorm(BSubC(a, b, 0))

\* -1, 0, 1 as a < b, a = b, a > b
RECURSIVE BCmpFrom(_, _, _)
BCmpFrom(a, b, i) ==
  IF i = 0 THEN 0
  ELSE IF a[i] < b[i] THEN -1
  ELSE IF a[i] > b[i] THEN 1
  ELSE BCmpFrom(a, b, i - 1)

BCmp(a, b) ==
  IF Len(a) < Len(b) THEN -1
  ELSE IF Len(a) > Len(b) THEN 1
  ELSE BCmpFrom(a, b, Len(a))

\* a * c + carry for 0 <= c < Base
RECURSIVE BMulSmallC(_, _, _)
BMulSmallC(a, c, carry) ==
  IF a = <<>>
  THEN (IF carry = 0 THEN <<>> ELSE <<carry>>)
  ELSE LET x == Head(a) * c + carry
       IN  <<x % Base>> \o BMulSmallC(Tail(a), c, x \div Base)

BMulSmall(a, c) == IF c = 0 THEN <<>> ELSE BMulSmallC(a, c, 0)

RECURSIVE BMul(_, _)
BMul(a, b) ==
  IF b = <<>> \/ a = <<>> THEN <<>>
  ELSE LET rest == BMul(a, Tail(b))
       IN  BAdd(BMulSmall(a, Head(b)),
                IF rest = <<>> THEN <<>> ELSE <<0>> \o rest)

RECURSIVE SmallBitLen(_)
SmallBitLen(n) == IF n = 0 THEN 0 ELSE 1 + SmallBitLen(n \div 2)

BBitLen(a) ==
  IF a = <<>> THEN 0 ELSE LimbBits * (Len(a) - 1) + SmallBitLen(a[Len(a)])

\* bit i (from 0) of a
BBit(a, i) ==
  LET q == i \div LimbBits
  IN  IF i < 0 \/ q + 1 > Len(a) THEN 0
      ELSE (a[q + 1] \div (2 ^ (i % LimbBits))) % 2

RECURSIVE Zeros(_)
Zeros(n) == IF n <= 0 THEN <<>> ELSE <<0>> \o Zeros(n - 1)

\* a * 2^k
BShl(a, k) ==
  IF a = <<>> \/ k <= 0 THEN a
  ELSE Zeros(k \div LimbBits) \o BMulSmall(a, 2 ^ (k % LimbBits))

\* floor(a / 2^r) for 0 <= r < LimbBits, limb by limb from the low end
RECURSIVE BShrSmall(_, _)
BShrSmall(a, r) ==
  IF a = <<>> THEN <<>>
  ELSE <<(Head(a) \div (2 ^ r))
          + (Hd(Tail(a)) % (2 ^ r)) * (2 ^ (LimbBits - r))>>
       \o BShrSmall(Tail(a), r)

\* floor(a / 2^k)
BShr(a, k) ==
  IF k <= 0 THEN a
  ELSE IF k >= BBitLen(a) THEN <<>>
  ELSE BNorm(BShrSmall(SubSeq(a, (k \div LimbBits) + 1, Len(a)),
                       k % LimbBits))

\* whether a has a set bit below bit k, i.e. a mod 2^k # 0
BLowNonzero(a, k) ==
  IF k <= 0 \/ a = <<>> THEN FALSE
  ELSE \E i \in 1..Len(a) :
         /\ a[i] # 0
         /\ \/ i <= k \div LimbBits
            \/ i = (k \div LimbBits) + 1 /\ a[i] % (2 ^ (k % LimbBits)) # 0

RECURSIVE SmallTrailingZeros(_)
SmallTrailingZeros(n) ==
  IF n % 2 = 1 THEN 0 ELSE 1 + SmallTrailingZeros(n \div 2)

\* number of trailing zero bits of a # 0
RECURSIVE BTrailingZeros(_)
BTrailingZeros(a) ==
  IF Head(a) = 0 THEN LimbBits + BTrailingZeros(Tail(a))
  ELSE SmallTrailingZeros(Head(a))

\* Long division, one bit of the numerator at a time from bit i down to 0:
\* r is the running remainder (< d), q the quotient so far.
RECURSIVE BDivLoop(_, _, _, _, _)
BDivLoop(n, d, i, r, q) ==
  IF i < 0 THEN [q |-> q, r |-> r]
  ELSE LET r2 == BAddC(r, r, BBit(n, i))
           ge == BCmp(r2, d) >= 0
           r3 == IF ge THEN BSub(r2, d) ELSE r2
           q2 == BAddC(q, q, IF ge THEN 1 ELSE 0)
       IN  IF Len(r3) + Len(q2) >= 0
           THEN BDivLoop(n, d, i - 1, r3, q2)
           ELSE [q |-> q2, r |-> r3]

\* Short division by a single limb c, one limb of the numerator at a time from
\* limb i down to 1: rem is the running remainder (< c), q the quotient so far.
RECURSIVE BDivSmallLoop(_, _, _, _, _)
BDivSmallLoop(n, c, i, rem, q) ==
  IF i = 0
  THEN [q |-> BNorm(q), r |-> IF rem = 0 THEN <<>> ELSE <<rem>>]
  ELSE LET x == rem * Base + n[i]
       IN  BDivSmallLoop(n, c, i - 1, x % c, <<x \div c>> \o q)

\* [q |-> floor(n / d), r |-> n mod d] for d # 0
\* (long division: the leading BBitLen(d) - 1 bits of n are below d and start
\* the remainder)
BDivMod(n, d) ==
  IF Len(d) = 1 THEN BDivSmallLoop(n, d[1], Len(n), 0, <<>>)
  ELSE LET i0 == Max(0, BBitLen(n) - BBitLen(d) + 1)
       IN  BDivLoop(n, d, i0 - 1, BShr(n, i0), <<>>)

\* ------------------------------------------------------------------------
\* IEEE-754 binary64, the TypeScript `number`.
\* ------------------------------------------------------------------------

\* significant bits of a binary64
Precision == 53

\* the least exponent: the smallest subnormal is 2^MinExp
MinExp == -1074

\* every finite binary64 is below 2^MaxExp
MaxExp == 1024

NaN == [k |-> "nan", s |-> 0, m |-> <<>>, e |-> 0]

Inf(s) == [k |-> "inf", s |-> s, m |-> <<>>, e |-> 0]

Zero(s) == [k |-> "zero", s |-> s, m |-> <<>>, e |-> 0]

XorSign(s, t) == IF s = t THEN 0 ELSE 1

\* the number (-1)^s * m * 2^e, m # 0 exactly representable, in canonical form
\* (m odd); overflow gives the infinity
Canon(s, m, e) ==
  IF m = <<>> THEN Zero(s)
  ELSE IF BBitLen(m) + e > MaxExp THEN Inf(s)
  ELSE LET t == BTrailingZeros(m)
       IN  [k |-> "fin", s |-> s, m |-> BShr(m, t), e |-> e + t]

\* (-1)^s * (q + fraction) * 2^e rounded to nearest, ties to even; sticky says
\* the fraction (in [0,1)) is not zero
Round(s, q, e, sticky) ==
  LET drop == Max(BBitLen(q) - Precision, MinExp - e)
  IN  IF drop <= 0 THEN Canon(s, q, e)
      ELSE LET kept  == BShr(q, drop)
               guard == BBit(q, drop - 1) = 1
               rest  == BLowNonzero(q, drop - 1) \/ sticky
               up    == guard /\ (rest \/ BBit(kept, 0) = 1)
           IN  Canon(s, IF up THEN BAdd(kept, <<1>>) ELSE kept, e + drop)

\* the number an integer literal or parseInt yields
FromInt(n) ==
  IF n = 0 THEN Zero(0)
  ELSE IF n < 0 THEN Canon(1, BFromNat(-n), 0)
  ELSE Canon(0, BFromNat(n), 0)

\* unary minus
FNeg(a) == IF a.k = "nan" THEN a ELSE [a EXCEPT !.s = 1 - a.s]

\* Math.abs
FAbs(a) == IF a.k = "nan" THEN a ELSE [a EXCEPT !.s = 0]

\* a * b
FMul(a, b) ==
  LET s == XorSign(a.s, b.s)
  IN  IF a.k = "nan" \/ b.k = "nan" THEN NaN
      ELSE IF a.k = "inf" \/ b.k = "inf"
           THEN (IF a.k = "zero" \/ b.k = "zero" THEN NaN ELSE Inf(s))
      ELSE IF a.k = "zero" \/ b.k = "zero" THEN Zero(s)
      ELSE Round(s, BMul(a.m, b.m), a.e + b.e, FALSE)

\* a / b
FDiv(a, b) ==
  LET s == XorSign(a.s, b.s)
  IN  IF a.k = "nan" \/ b.k = "nan" THEN NaN
      ELSE IF a.k = "inf" THEN (IF b.k = "inf" THEN NaN ELSE Inf(s))
      ELSE IF b.k = "inf" THEN Zero(s)
      ELSE IF b.k = "zero" THEN (IF a.k = "zero" THEN NaN ELSE Inf(s))
      ELSE IF a.k = "zero" THEN Zero(s)
      ELSE LET sh == Max(0, Precision + 2 + BBitLen(b.m) - BBitLen(a.m))
               dm == BDivMod(BShl(a.m, sh), b.m)
           IN  Round(s, dm.q, a.e - b.e - sh, dm.r # <<>>)

\* position of the leading bit of a finite non-zero number
Top(a) == BBitLen(a.m) + a.e

\* a + b
FAdd(a, b) ==
  IF a.k = "nan" \/ b.k = "nan" THEN NaN
  ELSE IF a.k = "inf"
       THEN (IF b.k = "inf" /\ b.s # a.s THEN NaN ELSE a)
  ELSE IF b.k = "inf" THEN b
  ELSE IF a.k = "zero"
       THEN (IF b.k = "zero" THEN Zero(IF a.s = 1 /\ b.s = 1 THEN 1 ELSE 0)
             ELSE b)
  ELSE IF b.k = "zero" THEN a
  ELSE IF Top(a) - Top(b) > Precision + 11 THEN a
  ELSE IF Top(b) - Top(a) > Precision + 11 THEN b
  ELSE LET e0 == Min(a.e, b.e)
           x  == BShl(a.m, a.e - e0)
           y  == BShl(b.m, b.e - e0)
           c  == BCmp(x, y)
       IN  IF a.s = b.s THEN Round(a.s, BAdd(x, y), e0, FALSE)
           ELSE IF c = 0 THEN Zero(0)
           ELSE IF c > 0 THEN Round(a.s, BSub(x, y), e0, FALSE)
           ELSE Round(b.s, BSub(y, x), e0, FALSE)

\* a - b
FSub(a, b) == FAdd(a, FNeg(b))

\* -1, 0, 1: the sign of a number that is not NaN
Sgn(a) == IF a.k = "zero" THEN 0 ELSE IF a.s = 0 THEN 1 ELSE -1

\* comparison of |a| and |b|, neither zero nor NaN
MagCmp(a, b) ==
  IF a.k = "inf" THEN (IF b.k = "inf" THEN 0 ELSE 1)
  ELSE IF b.k = "inf" THEN -1
  ELSE IF Top(a) # Top(b) THEN (IF Top(a) < Top(b) THEN -1 ELSE 1)
  ELSE LET e0 == Min(a.e, b.e)
       IN  BCmp(BShl(a.m, a.e - e0), BShl(b.m, b.e - e0))

\* comparison of a and b, neither NaN
FCmp(a, b) ==
  IF Sgn(a) # Sgn(b) THEN (IF Sgn(a) < Sgn(b) THEN -1 ELSE 1)
  ELSE IF Sgn(a) = 0 THEN 0
  ELSE Sgn(a) * MagCmp(a, b)

IsNaN(a) == a.k = "nan"

\* a === b
FEq(a, b) == ~IsNaN(a) /\ ~IsNaN(b) /\ FCmp(a, b) = 0

\* a < b
FLt(a, b) == ~IsNaN(a) /\ ~IsNaN(b) /\ FCmp(a, b) < 0

\* a > b
FGt(a, b) == FLt(b, a)

\* a <= b
FLe(a, b) == ~IsNaN(a) /\ ~IsNaN(b) /\ FCmp(a, b) <= 0

\* ------------------------------------------------------------------------
\* physics.ts
\* ------------------------------------------------------------------------

MirrorType == {"PLANE", "CONCAVE", "CONVEX"}

Infinity == Inf(0)

\* calculateImageDistance with the denominator's sign wrong
calculateImageDistanceSum(objDist, f) ==
  IF FEq(objDist, f) THEN Infinity
  ELSE FDiv(FMul(objDist, f), FAdd(objDist, f))

\* calculateImageDistance without its guard: the division is performed
calculateImageDistanceUnguarded(objDist, f) ==
  FDiv(FMul(objDist, f), FSub(objDist, f))

calculateImageDistance(objDist, f) ==
  IF FEq(objDist, f) THEN Infinity
  ELSE FDiv(FMul(objDist, f), FSub(objDist, f))

\* calculateObjectDistance with the denominator's sign wrong
calculateObjectDistanceSum(di, f) ==
  IF FEq(di, f) THEN Infinity
  ELSE FDiv(FMul(di, f), FAdd(di, f))

calculateObjectDistance(di, f) ==
  IF FEq(di, f) THEN Infinity
  ELSE FDiv(FMul(di, f), FSub(di, f))

\* calculateImage without the plane-mirror branch
calculateImageCurvedOnly(state) ==
  LET di            == calculateImageDistance(state.objectDistance,
                                              state.focalLength)
      magnification == FDiv(FNeg(di), state.objectDistance)
      imageHeight   == FMul(magnification, state.objectHeight)
  IN  [imageDistance |-> di,
       imageHeight   |-> imageHeight,
       magnification |-> magnification,
       isReal        |-> FGt(di, Zero(0))]

\* calculateImage with the magnification's minus sign dropped
calculateImageUnsigned(state) ==
  IF state.mirrorType = "PLANE"
  THEN [imageDistance |-> FNeg(state.objectDistance),
        imageHeight   |-> state.objectHeight,
        magnification |-> FromInt(1),
        isReal        |-> FALSE]
  ELSE LET di            == calculateImageDistance(state.objectDistance,
                                                   state.focalLength)
           magnification == FDiv(di, state.objectDistance)
           imageHeight   == FMul(magnification, state.objectHeight)
       IN  [imageDistance |-> di,
            imageHeight   |-> imageHeight,
            magnification |-> magnification,
            isReal        |-> FGt(di, Zero(0))]

calculateImage(state) ==
  IF state.mirrorType = "PLANE"
  THEN [imageDistance |-> FNeg(state.objectDistance),
        imageHeight   |-> state.objectHeight,
        magnification |-> FromInt(1),
        isReal        |-> FALSE]
  ELSE LET di            == calculateImageDistance(state.objectDistance,
                                                   state.focalLength)
           magnification == FDiv(FNeg(di), state.objectDistance)
           imageHeight   == FMul(magnification, state.objectHeight)
       IN  [imageDistance |-> di,
            imageHeight   |-> imageHeight,
            magnification |-> magnification,
            isReal        |-> FGt(di, Zero(0))]

\* ------------------------------------------------------------------------
\* App.tsx: the component's state and its event handlers
\* ------------------------------------------------------------------------

\* focalLength and objectHeight only ever hold integers (literals and the
\* parseInt of a step-1 range input): they are kept as integers and converted
\* where the arithmetic uses them.  objectDistance is a binary64.
\* last records the handler that ran last and, for the image-distance slider,
\* the value it was given and the state it ran in.
VARIABLES mirrorType, focalLength, objectDistance, objectHeight, last

vars == <<mirrorType, focalLength, objectDistance, objectHeight, last>>

InitFocalLength == 100

InitObjectDistance == 200

InitObjectHeight == 50

ConvexFocalLength == -100

ConcaveFocalMin == 50

ConcaveFocalMax == 300

ConvexFocalMin == -300

ConvexFocalMax == -50

ObjectDistanceMin == 10

ObjectDistanceMax == 600

ImageDistanceMin == -600

ImageDistanceMax == 600

ObjectHeightMin == 10

ObjectHeightMax == 150

\* handleImageDistanceChange accepts 0 < newDo < NewDoLimit
NewDoLimit == 1000

\* number of intervals a slider's range is cut into: the slider positions the
\* model tries are the cut points, and the positions that matter to the state
GridSteps == 4

Grid(lo, hi) == {lo + (k * (hi - lo)) \div GridSteps : k \in 0..GridSteps}

Abs(n) == IF n < 0 THEN -n ELSE n

\* the state object handed to calculateImage
AppState ==
  [mirrorType     |-> mirrorType,
   focalLength    |-> FromInt(focalLength),
   objectDistance |-> objectDistance,
   objectHeight   |-> FromInt(objectHeight)]

image == calculateImage(AppState)

Op(name) == [op |-> name, di |-> 0]

Init ==
  /\ mirrorType = "CONCAVE"
  /\ focalLength = InitFocalLength
  /\ objectDistance = FromInt(InitObjectDistance)
  /\ objectHeight = InitObjectHeight
  /\ last = Op("init")

\* the Reset button
Reset ==
  /\ mirrorType' = "CONCAVE"
  /\ focalLength' = InitFocalLength
  /\ objectDistance' = FromInt(InitObjectDistance)
  /\ last' = Op("reset")
  /\ UNCHANGED objectHeight

\* a mirror-type button that leaves the focal length as it was
SelectMirrorTypeKeepFocal(type) ==
  /\ mirrorType' = type
  /\ last' = Op("type")
  /\ UNCHANGED <<focalLength, objectDistance, objectHeight>>

\* a mirror-type button
SelectMirrorType(type) ==
  /\ mirrorType' = type
  /\ focalLength' =
       IF type = "CONVEX" /\ focalLength > 0 THEN ConvexFocalLength
       ELSE IF type = "CONCAVE" /\ focalLength < 0 THEN InitFocalLength
       ELSE focalLength
  /\ last' = Op("type")
  /\ UNCHANGED <<objectDistance, objectHeight>>

FocalMin == IF mirrorType = "CONVEX" THEN ConvexFocalMin ELSE ConcaveFocalMin

FocalMax == IF mirrorType = "CONVEX" THEN ConvexFocalMax ELSE ConcaveFocalMax

\* the focal-length slider, disabled for a plane mirror
FocalLengthSlider(v) ==
  /\ mirrorType # "PLANE"
  /\ FocalMin <= v /\ v <= FocalMax
  /\ focalLength' = v
  /\ last' = Op("focal")
  /\ UNCHANGED <<mirrorType, objectDistance, objectHeight>>

\* the object-distance slider
ObjectDistanceSlider(v) ==
  /\ ObjectDistanceMin <= v /\ v <= ObjectDistanceMax
  /\ objectDistance' = FromInt(v)
  /\ last' = Op("object")
  /\ UNCHANGED <<mirrorType, focalLength, objectHeight>>

\* the object-height slider
ObjectHeightSlider(v) ==
  /\ ObjectHeightMin <= v /\ v <= ObjectHeightMax
  /\ objectHeight' = v
  /\ last' = Op("height")
  /\ UNCHANGED <<mirrorType, focalLength, objectDistance>>

\* handleImageDistanceChange without the upper limit on newDo
handleImageDistanceChangeNoLimit(di) ==
  /\ IF mirrorType = "PLANE"
     THEN objectDistance' = FAbs(di)
     ELSE LET newDo == calculateObjectDistance(di, FromInt(focalLength))
          IN  IF FGt(newDo, Zero(0))
              THEN objectDistance' = newDo
              ELSE objectDistance' = objectDistance
  /\ UNCHANGED <<mirrorType, focalLength, objectHeight>>

\* handleImageDistanceChange without Math.abs for the plane mirror
handleImageDistanceChangeNoAbs(di) ==
  /\ IF mirrorType = "PLANE"
     THEN objectDistance' = di
     ELSE LET newDo == calculateObjectDistance(di, FromInt(focalLength))
          IN  IF FGt(newDo, Zero(0)) /\ FLt(newDo, FromInt(NewDoLimit))
              THEN objectDistance' = newDo
              ELSE objectDistance' = objectDistance
  /\ UNCHANGED <<mirrorType, focalLength, objectHeight>>

handleImageDistanceChange(di) ==
  /\ IF mirrorType = "PLANE"
     THEN objectDistance' = FAbs(di)
     ELSE LET newDo == calculateObjectDistance(di, FromInt(focalLength))
          IN  IF FGt(newDo, Zero(0)) /\ FLt(newDo, FromInt(NewDoLimit))
              THEN objectDistance' = newDo
              ELSE objectDistance' = objectDistance
  /\ UNCHANGED <<mirrorType, focalLength, objectHeight>>

\* the image-distance slider
ImageDistanceSlider(v) ==
  /\ ImageDistanceMin <= v /\ v <= ImageDistanceMax
  /\ handleImageDistanceChange(FromInt(v))
  /\ last' = [op |-> "image", di |-> v, from |-> AppState]

\* slider positions tried: the grid, and the positions at and around the
\* focal length, where the solver's special cases lie
FocalInputs == Grid(FocalMin, FocalMax) \cup {InitFocalLength, ConvexFocalLength}

ObjectInputs ==
  Grid(ObjectDistanceMin, ObjectDistanceMax) \cup {Abs(focalLength)}

ImageInputs ==
  Grid(ImageDistanceMin, ImageDistanceMax) \cup {0, focalLength, 2 * focalLength}

HeightInputs == {ObjectHeightMin, ObjectHeightMax}

Next ==
  \/ Reset
  \/ \E type \in MirrorType : SelectMirrorType(type)
  \/ \E v \in FocalInputs : FocalLengthSlider(v)
  \/ \E v \in ObjectInputs : ObjectDistanceSlider(v)
  \/ \E v \in ImageInputs : ImageDistanceSlider(v)
  \/ \E v \in HeightInputs : ObjectHeightSlider(v)

Spec == Init /\ [][Next]_vars

\* ------------------------------------------------------------------------
\* The exported functions of physics.ts on their own: the arguments are drawn
\* from a set, then one function is called on them and last holds its result.
\* ------------------------------------------------------------------------

FnFocal ==
  Grid(ConvexFocalMin, ConcaveFocalMax)
    \cup {0, ConcaveFocalMin, InitFocalLength, ConvexFocalLength, ConvexFocalMax}

FnDistances ==
  {FromInt(n) : n \in Grid(ObjectDistanceMin, ObjectDistanceMax)
                        \cup {0, 13, 50, 100, 200, 300, -13, -100}}
    \cup {FDiv(FromInt(p[1]), FromInt(p[2])) :
            p \in {<<600, 13>>, <<2300, 3>>, <<100, 3>>, <<-200, 3>>}}

InitFn ==
  /\ mirrorType \in MirrorType
  /\ focalLength \in FnFocal
  /\ objectDistance \in FnDistances
  /\ objectHeight \in {InitObjectHeight, ObjectHeightMax}
  /\ last = [op |-> "input"]

F == FromInt(focalLength)

CallImageDistance ==
  /\ last.op = "input"
  /\ last' = [op |-> "calculateImageDistance",
              out |-> calculateImageDistance(objectDistance, F)]
  /\ UNCHANGED <<mirrorType, focalLength, objectDistance, objectHeight>>

\* objectDistance holds the argument di
CallObjectDistance ==
  /\ last.op = "input"
  /\ last' = [op |-> "calculateObjectDistance",
              out |-> calculateObjectDistance(objectDistance, F)]
  /\ UNCHANGED <<mirrorType, focalLength, objectDistance, objectHeight>>

\* calculateObjectDistance(calculateImageDistance(do, f), f)
CallRoundTrip ==
  /\ last.op = "calculateImageDistance"
  /\ last' = [op |-> "roundTrip",
              out |-> calculateObjectDistance(last.out, F)]
  /\ UNCHANGED <<mirrorType, focalLength, objectDistance, objectHeight>>

CallImage ==
  /\ last.op = "input"
  /\ last' = [op |-> "calculateImage", out |-> calculateImage(AppState)]
  /\ UNCHANGED <<mirrorType, focalLength, objectDistance, objectHeight>>

NextFn ==
  \/ CallImageDistance
  \/ CallObjectDistance
  \/ CallRoundTrip
  \/ CallImage

SpecFn == InitFn /\ [][NextFn]_vars

\* ------------------------------------------------------------------------
\* Properties
\* ------------------------------------------------------------------------

\* the relative tolerance of "within floating-point tolerance" is 2^-TolBits
TolBits == 40

Tolerance == [k |-> "fin", s |-> 0, m |-> <<1>>, e |-> -TolBits]

\* |x - y| <= Tolerance * |y|
Close(x, y) == FLe(FAbs(FSub(x, y)), FMul(Tolerance, FAbs(y)))

One == FromInt(1)

Positive(x) == FGt(x, Zero(0))

Negative(x) == FLt(x, Zero(0))

Curved == mirrorType # "PLANE"

\* C1: in every reachable state of the application objectDistance is strictly
\* positive.
ObjectDistancePositive == Positive(objectDistance)

\* C2: in every reachable state of the application calculateImage returns no
\* NaN: imageDistance, magnification and imageHeight are each finite or a
\* signed infinity.
ImageWellDefined ==
  /\ ~IsNaN(image.imageDistance)
  /\ ~IsNaN(image.magnification)
  /\ ~IsNaN(image.imageHeight)

\* C3: for do > 0, f # 0 and do # f, di = calculateImageDistance(do, f)
\* satisfies 1/do + 1/di = 1/f, and di * (do - f) = do * f, within
\* floating-point tolerance.
MirrorEquationHolds ==
  ( /\ last.op = "calculateImageDistance"
    /\ Positive(objectDistance)
    /\ focalLength # 0
    /\ ~FEq(objectDistance, F) )
  => /\ Close(FAdd(FDiv(One, objectDistance), FDiv(One, last.out)),
              FDiv(One, F))
     /\ Close(FMul(last.out, FSub(objectDistance, F)), FMul(objectDistance, F))

\* the image distance of f = -100, do = 200 is the rounded quotient -200/3
MirrorEquationWitness ==
  /\ last.op = "calculateImageDistance"
  /\ focalLength = ConvexFocalLength
  /\ objectDistance = FromInt(InitObjectDistance)
  /\ last.out = FDiv(FromInt(-200), FromInt(3))

\* C4 as stated: for do # f the round trip
\* calculateObjectDistance(calculateImageDistance(do, f), f) equals do.
RoundTripExact ==
  (last.op = "roundTrip" /\ ~FEq(objectDistance, F))
  => FEq(last.out, objectDistance)

\* C4 amended: for do # f and f # 0 the round trip equals do within
\* floating-point tolerance; for f = 0 and do # 0 it is the infinite sentinel.
RoundTripClose ==
  (last.op = "roundTrip" /\ ~FEq(objectDistance, F))
  => IF focalLength # 0 THEN Close(last.out, objectDistance)
     ELSE last.out = Infinity

\* a round trip that rounding keeps from returning do exactly
RoundTripWitness ==
  /\ last.op = "roundTrip"
  /\ focalLength # 0
  /\ ~FEq(objectDistance, F)
  /\ ~FEq(last.out, objectDistance)
  /\ Close(last.out, objectDistance)

\* C5: with do = f calculateImageDistance returns the infinite sentinel, with
\* di = f calculateObjectDistance does, and calculateImage on a curved mirror
\* with objectDistance = focalLength reports an infinite imageDistance, beyond
\* every finite threshold and not NaN.
SentinelAtFocus ==
  /\ (last.op = "calculateImageDistance" /\ FEq(objectDistance, F))
       => last.out = Infinity
  /\ (last.op = "calculateObjectDistance" /\ FEq(objectDistance, F))
       => last.out = Infinity
  /\ (last.op = "calculateImage" /\ Curved /\ FEq(objectDistance, F))
       => /\ last.out.imageDistance.k = "inf"
          /\ FGt(FAbs(last.out.imageDistance), FromInt(NewDoLimit))

\* f = 100, do = 100 on a curved mirror
SentinelWitness ==
  /\ last.op = "calculateImage"
  /\ Curved
  /\ focalLength = InitFocalLength
  /\ objectDistance = FromInt(InitFocalLength)
  /\ last.out.imageDistance = Infinity

\* C6: for a plane mirror and objectDistance > 0, calculateImage returns
\* imageDistance = -objectDistance, imageHeight = objectHeight,
\* magnification = 1 and isReal = false, whatever focalLength is.
PlaneMirrorImage ==
  (last.op = "calculateImage" /\ mirrorType = "PLANE" /\ Positive(objectDistance))
  => /\ last.out.imageDistance = FNeg(objectDistance)
     /\ last.out.imageHeight = FromInt(objectHeight)
     /\ last.out.magnification = One
     /\ last.out.isReal = FALSE
     /\ \A f2 \in FnFocal :
          calculateImage([AppState EXCEPT !.focalLength = FromInt(f2)]) = last.out

PlaneMirrorWitness ==
  /\ last.op = "calculateImage"
  /\ mirrorType = "PLANE"
  /\ objectDistance = FromInt(InitObjectDistance)
  /\ focalLength = ConvexFocalLength
  /\ last.out.imageDistance = FromInt(-InitObjectDistance)

\* C7: in every reachable state of the application focalLength > 0 when the
\* mirror is concave and focalLength < 0 when it is convex.
FocalSignInvariant ==
  /\ mirrorType = "CONCAVE" => focalLength > 0
  /\ mirrorType = "CONVEX" => focalLength < 0

\* the convex button was pressed and replaced a positive focal length
FocalSignWitness ==
  /\ last.op = "type"
  /\ mirrorType = "CONVEX"
  /\ focalLength = ConvexFocalLength

\* the inverse solve the image-distance slider's step asked for
NewDo == calculateObjectDistance(FromInt(last.di), last.from.focalLength)

OutOfDomain(newDo) ==
  \/ Negative(newDo)
  \/ FEq(newDo, Zero(0))
  \/ newDo = Infinity
  \/ FLe(FromInt(NewDoLimit), newDo)

\* C8: on a curved mirror handleImageDistanceChange(di) leaves the whole state
\* as it was when calculateObjectDistance(di, focalLength) is negative, zero,
\* the infinite sentinel or not below the limit of 1000, and otherwise sets
\* objectDistance to exactly that result and changes nothing else.
InverseSolveGuarded ==
  (last.op = "image" /\ last.from.mirrorType # "PLANE")
  => /\ AppState = [last.from EXCEPT !.objectDistance = objectDistance]
     /\ objectDistance =
          IF OutOfDomain(NewDo) THEN last.from.objectDistance ELSE NewDo

\* the slider was put on the focal length: the solve gave the sentinel and the
\* object stayed where Reset had put it
InverseSolveWitness ==
  /\ last.op = "image"
  /\ Curved
  /\ last.di = focalLength
  /\ NewDo = Infinity
  /\ objectDistance = last.from.objectDistance

\* C9: for a curved mirror with do > 0, f # 0 and do # f, isReal is the sign
\* of di; the image is real exactly when f > 0 and do > f, and is then
\* inverted; a concave mirror with do < f gives a virtual image with
\* magnification > 1; a convex mirror gives a virtual image with f < di < 0
\* and 0 < magnification < 1.
ImageClassification ==
  ( /\ last.op = "calculateImage"
    /\ Curved
    /\ Positive(objectDistance)
    /\ focalLength # 0
    /\ ~FEq(objectDistance, F) )
  => LET di  == last.out.imageDistance
         mag == last.out.magnification
     IN  /\ last.out.isReal = Positive(di)
         /\ last.out.isReal = (focalLength > 0 /\ FGt(objectDistance, F))
         /\ last.out.isReal => Negative(mag)
         /\ (focalLength > 0 /\ FLt(objectDistance, F))
              => ~last.out.isReal /\ FGt(mag, One)
         /\ focalLength < 0
              => /\ ~last.out.isReal
                 /\ FLt(F, di) /\ Negative(di)
                 /\ Positive(mag) /\ FLt(mag, One)

\* f = 100, do = 50: di = -100, magnification = 2, virtual
ImageClassificationWitness ==
  /\ last.op = "calculateImage"
  /\ Curved
  /\ focalLength = InitFocalLength
  /\ objectDistance = FromInt(50)
  /\ last.out.imageDistance = FromInt(-100)
  /\ last.out.magnification = FromInt(2)
  /\ ~last.out.isReal

\* C10 as stated: for every mirror type, when the image-distance slider's
\* step changes objectDistance, the image recomputed from the new state has
\* imageDistance equal to the requested di.
InverseDesignExact ==
  (last.op = "image" /\ objectDistance # last.from.objectDistance)
  => FEq(image.imageDistance, FromInt(last.di))

\* C10 amended: when the step changes objectDistance, the recomputed
\* imageDistance is, on a curved mirror, the requested di within
\* floating-point tolerance and, on a plane mirror, -|di|.
InverseDesignClose ==
  (last.op = "image" /\ objectDistance # last.from.objectDistance)
  => IF Curved
     THEN Close(image.imageDistance, FromInt(last.di))
     ELSE FEq(image.imageDistance, FromInt(-Abs(last.di)))

\* an accepted inverse solve on a curved mirror whose recomputed image
\* distance is not exactly the requested one
InverseDesignWitness ==
  /\ last.op = "image"
  /\ Curved
  /\ objectDistance # last.from.objectDistance
  /\ ~FEq(image.imageDistance, FromInt(last.di))
  /\ Close(image.imageDistance, FromInt(last.di))

====
